---------------------------- MODULE Spec2Model ----------------------------
(***************************************************************************)
(* A model of the real-estate deal analyser: the mortgage, expense and     *)
(* return services, the deal classification and the purchase-price search  *)
(* of RealEstateDealAnalyser (both versions held in the repository).       *)
(*                                                                         *)
(* NUMBERS.  The program computes with JavaScript numbers (IEEE doubles).  *)
(* The model keeps their shape: a number is finite, NaN, +Infinity or      *)
(* -Infinity, every operation rounds its result to the nearest             *)
(* representable value, a division by zero gives an infinity or NaN and    *)
(* every comparison with NaN is false.  What is smaller is the precision:  *)
(* a finite number is a multiple of 1/SCALE held as the integer v, so that *)
(* it fits the model checker's integers.  Purchase prices, search bounds   *)
(* and loop counters hold integers in the program and are plain integers   *)
(* here.                                                                   *)
(***************************************************************************)
EXTENDS Integers, Sequences, FiniteSets, TLC

(***************************************************************************)
(* JavaScript numbers                                                      *)
(***************************************************************************)
SCALE == 10 ^ 4

Fin(m) == [k |-> "fin", v |-> m]
NaN == [k |-> "nan", v |-> 0]
PosInf == [k |-> "inf", v |-> 1]
NegInf == [k |-> "inf", v |-> -1]
Undefined == [k |-> "undef", v |-> 0]

\* The literal i.ffff (f counts ten-thousandths) and the integer i.
Dec(i, f) == Fin(i * SCALE + f)
FromInt(i) == Fin(i * SCALE)
Zero == FromInt(0)
One == FromInt(1)

IsNaN(a) == a.k = "nan"
IsFin(a) == a.k = "fin"
IsInf(a) == a.k = "inf"

\* JavaScript evaluates an argument once, before the call: Call(v, Op) is
\* Op applied to the value of v.
Call(v, Op(_)) == CHOOSE r \in {Op(x) : x \in {v}} : TRUE
Call2(v, w, Op(_, _)) == CHOOSE r \in {Op(x, y) : x \in {v}, y \in {w}} : TRUE

Sgn(a) == IF a.v > 0 THEN 1 ELSE IF a.v < 0 THEN -1 ELSE 0
Inf(s) == IF s < 0 THEN NegInf ELSE PosInf

Neg(x) == Call(x, LAMBDA a : IF IsNaN(a) THEN NaN ELSE [k |-> a.k, v |-> -a.v])

Add(x, y) ==
    Call2(x, y, LAMBDA a, b :
        IF IsNaN(a) \/ IsNaN(b) THEN NaN
        ELSE IF IsInf(a) /\ IsInf(b) THEN (IF a.v = b.v THEN a ELSE NaN)
        ELSE IF IsInf(a) THEN a
        ELSE IF IsInf(b) THEN b
        ELSE Fin(a.v + b.v))

Sub(a, b) == Add(a, Neg(b))

\* x*y/SCALE rounded to the nearest integer, computed in halves so that no
\* intermediate product leaves the integer range.
MulFix(x, y) ==
    LET xh == x \div SCALE
        xl == x % SCALE
        yh == y \div SCALE
        yl == y % SCALE
    IN  xh * yh * SCALE + xh * yl + xl * yh + ((xl * yl + SCALE \div 2) \div SCALE)

Mul(x, y) ==
    Call2(x, y, LAMBDA a, b :
        IF IsNaN(a) \/ IsNaN(b) THEN NaN
        ELSE IF IsInf(a) \/ IsInf(b)
             THEN (IF Sgn(a) = 0 \/ Sgn(b) = 0 THEN NaN ELSE Inf(Sgn(a) * Sgn(b)))
        ELSE Fin(MulFix(a.v, b.v)))

\* The digits of r/d after the point (0 <= r < d), one decimal digit at a
\* time, the last one rounded.
RECURSIVE FracDigits(_, _, _, _)
FracDigits(r, d, n, acc) ==
    IF n = 1 THEN acc
    ELSE FracDigits((r * 10) % d, d, n \div 10, acc * 10 + ((r * 10) \div d))

\* x*SCALE/y rounded to the nearest integer, for y # 0.
DivFix(x, y) ==
    LET d == IF y < 0 THEN -y ELSE y
        n == IF y < 0 THEN -x ELSE x
        q == n \div d
        r == n % d
        f == FracDigits(r, d, SCALE * 10, 0)
    IN  q * SCALE + ((f + 5) \div 10)

Div(x, y) ==
    Call2(x, y, LAMBDA a, b :
        IF IsNaN(a) \/ IsNaN(b) THEN NaN
        ELSE IF IsInf(a) THEN (IF IsInf(b) THEN NaN
                               ELSE Inf(a.v * (IF b.v < 0 THEN -1 ELSE 1)))
        ELSE IF IsInf(b) THEN Zero
        ELSE IF b.v = 0 THEN (IF a.v = 0 THEN NaN ELSE Inf(Sgn(a)))
        ELSE Fin(DivFix(a.v, b.v)))

\* The order of two numbers neither of which is NaN: -1, 0 or 1.
Cmp(a, b) ==
    IF IsInf(a) /\ IsInf(b) THEN Sgn(Fin(a.v - b.v))
    ELSE IF IsInf(a) THEN a.v
    ELSE IF IsInf(b) THEN -b.v
    ELSE Sgn(Fin(a.v - b.v))

Lt(x, y) == Call2(x, y, LAMBDA a, b : ~IsNaN(a) /\ ~IsNaN(b) /\ Cmp(a, b) < 0)
Ge(x, y) == Call2(x, y, LAMBDA a, b : ~IsNaN(a) /\ ~IsNaN(b) /\ Cmp(a, b) >= 0)
StrictEq(x, y) == Call2(x, y, LAMBDA a, b : ~IsNaN(a) /\ ~IsNaN(b) /\ Cmp(a, b) = 0)

Abs(x) ==
    Call(x, LAMBDA a : IF IsNaN(a) THEN NaN
                       ELSE [k |-> a.k, v |-> IF a.v < 0 THEN -a.v ELSE a.v])
Floor(x) == Call(x, LAMBDA a : IF IsFin(a) THEN Fin((a.v \div SCALE) * SCALE) ELSE a)

\* Truthiness of a number (or undefined), and `x || 0`.
Truthy(x) == Call(x, LAMBDA a : (IsFin(a) /\ a.v # 0) \/ IsInf(a))
OrZero(x) == Call(x, LAMBDA a : IF Truthy(a) THEN a ELSE Zero)

RECURSIVE PowNat(_, _)
PowNat(a, n) ==
    IF n = 0 THEN One
    ELSE IF n % 2 = 1 THEN Mul(a, PowNat(a, n - 1))
    ELSE Call(PowNat(a, n \div 2), LAMBDA h : Mul(h, h))

\* a ** e for an integer-valued finite exponent e.
Pow(x, y) ==
    Call2(x, y, LAMBDA a, e :
        IF e.v = 0 THEN One
        ELSE IF e.v > 0 THEN PowNat(a, e.v \div SCALE)
        ELSE Div(One, PowNat(a, (-e.v) \div SCALE)))

(***************************************************************************)
(* FINANCIAL_CONSTANTS                                                     *)
(***************************************************************************)
CLOSING_COST_RATE == Dec(0, 320)
PMI_RATE == Dec(0, 98)
INVESTMENT_YEAR_TIME_HORIZON == 5
APPRECIATION_RATES_SFH == Dec(0, 400)
APPRECIATION_RATES_RENT == Dec(0, 250)
MAINTENANCE_RATES_NEW_CONSTRUCTION == Dec(0, 15)
MAINTENANCE_RATES_EXISTING_CONSTRUCTION == Dec(0, 54)
MANAGEMENT_RATES_SINGLE_FAMILY == Dec(0, 1000)
MANAGEMENT_RATES_MULTI_FAMILY == Dec(0, 800)
UNIT_UTILITY_COST == FromInt(355)
CAPEX_RATE == Dec(0, 100)
BASE_INSURANCE_RATE == Dec(0, 44)
CONDO_INSURANCE_RATE == FromInt(450)
MINIMUM_MONTHLY_CASHFLOW_PER_DOOR == FromInt(100)
MINIMUM_ROI == Dec(0, 2500)
MINIMUM_COC_ROI == Dec(0, 500)

(***************************************************************************)
(* MortgageCalculationService.  A service object is the record of what its *)
(* constructor captured.                                                   *)
(***************************************************************************)
MortgageCalculationService(deal, purchasePrice) ==
    [deal |-> deal, purchasePrice |-> purchasePrice]

getDownPayment(this) ==
    Mul(this.purchasePrice, Div(this.deal.downpaymentPercentage, FromInt(100)))

getLoanAmount(this) ==
    LET closingEquity == OrZero(this.deal.closingEquity)
    IN  Sub(Sub(this.purchasePrice, getDownPayment(this)), closingEquity)

\* A PMI term that is charged up to and including a down payment of 20%.
PMI_ChargedAtTwenty(this) ==
    IF Lt(FromInt(20), this.deal.downpaymentPercentage)
    THEN Zero
    ELSE Div(Mul(this.purchasePrice, PMI_RATE), FromInt(12))

\* The PMI term of getMonthlyMortgagePayment.
PMI(this) ==
    IF Ge(this.deal.downpaymentPercentage, FromInt(20))
    THEN Zero
    ELSE Div(Mul(this.purchasePrice, PMI_RATE), FromInt(12))

\* The term of getMonthlyMortgagePayment that pays principal and interest:
\* (loanAmount * r) / (1 - (1 + r) ** -n).
PrincipalAndInterest(this, n, monthlyMortgageInterestRate) ==
    Div(Mul(getLoanAmount(this), monthlyMortgageInterestRate),
        Sub(One, Pow(Add(One, monthlyMortgageInterestRate), Neg(n))))

getMonthlyMortgagePayment(this) ==
    Add(PMI(this),
        PrincipalAndInterest(
            this,
            Mul(this.deal.mortgageAmortization, FromInt(12)),
            Div(Div(this.deal.annualMortgageInterestRate, FromInt(100)), FromInt(12))))

(***************************************************************************)
(* ExpenseCalculationService                                               *)
(***************************************************************************)
ExpenseCalculationService(deal, purchasePrice, mortgageService) ==
    [deal |-> deal, purchasePrice |-> purchasePrice,
     mortgageService |-> mortgageService]

getClosingCosts(this) == Mul(CLOSING_COST_RATE, this.purchasePrice)

getAnnualCapEx(this) ==
    IF Lt(Zero, this.deal.monthlyHoaDues)
    THEN Zero
    ELSE Mul(this.purchasePrice, CAPEX_RATE)

getAnnualMaintenance(this) ==
    LET rate == IF this.deal.newConstruction
                THEN MAINTENANCE_RATES_NEW_CONSTRUCTION
                ELSE MAINTENANCE_RATES_EXISTING_CONSTRUCTION
    IN  Mul(this.purchasePrice, rate)

getAnnualInsurance(this) ==
    IF Truthy(this.deal.monthlyHoaDues)
    THEN CONDO_INSURANCE_RATE
    ELSE Mul(this.purchasePrice, BASE_INSURANCE_RATE)

\* A management rate that changes at four units instead of above four.
getAnnualManagement_FromFour(this) ==
    IF ~this.deal.needsPropertyManagement THEN Zero
    ELSE Mul(Mul(this.deal.monthlyRent, FromInt(12)),
             IF Ge(this.deal.unitCount, FromInt(4))
             THEN MANAGEMENT_RATES_MULTI_FAMILY
             ELSE MANAGEMENT_RATES_SINGLE_FAMILY)

getAnnualManagement(this) ==
    IF ~this.deal.needsPropertyManagement THEN Zero
    ELSE Mul(Mul(this.deal.monthlyRent, FromInt(12)),
             IF Lt(FromInt(4), this.deal.unitCount)
             THEN MANAGEMENT_RATES_MULTI_FAMILY
             ELSE MANAGEMENT_RATES_SINGLE_FAMILY)

getAnnualUtilities(this) ==
    IF ~this.deal.landlordPaidUtilities THEN Zero
    ELSE Mul(Mul(this.deal.unitCount, UNIT_UTILITY_COST), FromInt(12))

\* arr.reduce((acc, v) => acc + v, 0)
RECURSIVE SumFrom(_, _, _)
SumFrom(arr, i, acc) ==
    IF i > Len(arr) THEN acc ELSE SumFrom(arr, i + 1, Add(acc, arr[i]))
ReduceSum(arr) == SumFrom(arr, 1, Zero)

\* The object annualExpenses of getAnnualExpenses.
annualExpenses(this) ==
    [annualMortgagePayment |->
         Mul(getMonthlyMortgagePayment(this.mortgageService), FromInt(12)),
     annualHoaDues |-> Mul(this.deal.monthlyHoaDues, FromInt(12)),
     annualUtilities |-> getAnnualUtilities(this),
     annualPropertyManagement |-> getAnnualManagement(this),
     annualCapEx |-> getAnnualCapEx(this),
     annualMaintenanceCosts |-> getAnnualMaintenance(this),
     annualPropertyTax |->
         Mul(this.purchasePrice, Div(this.deal.propertyTaxRate, FromInt(100))),
     annualPropertyInsurance |-> getAnnualInsurance(this),
     annualVacancyCosts |->
         Mul(Mul(this.deal.monthlyRent, FromInt(12)),
             Div(this.deal.vacancyRate, FromInt(100)))]

\* { ...annualExpenses, totalAnnualExpenses: Object.values(annualExpenses).reduce(...) }
WithTotal(e) ==
    [annualMortgagePayment |-> e.annualMortgagePayment,
     annualHoaDues |-> e.annualHoaDues,
     annualUtilities |-> e.annualUtilities,
     annualPropertyManagement |-> e.annualPropertyManagement,
     annualCapEx |-> e.annualCapEx,
     annualMaintenanceCosts |-> e.annualMaintenanceCosts,
     annualPropertyTax |-> e.annualPropertyTax,
     annualPropertyInsurance |-> e.annualPropertyInsurance,
     annualVacancyCosts |-> e.annualVacancyCosts,
     totalAnnualExpenses |->
         ReduceSum(<<e.annualMortgagePayment, e.annualHoaDues, e.annualUtilities,
                     e.annualPropertyManagement, e.annualCapEx,
                     e.annualMaintenanceCosts, e.annualPropertyTax,
                     e.annualPropertyInsurance, e.annualVacancyCosts>>)]

getAnnualExpenses(this) == Call(this, LAMBDA t : Call(annualExpenses(t), WithTotal))


(***************************************************************************)
(* ReturnCalculationService                                                *)
(***************************************************************************)
ReturnCalculationService(deal, purchasePrice, mortgageService, expenseService) ==
    [deal |-> deal, purchasePrice |-> purchasePrice,
     mortgageService |-> mortgageService, expenseService |-> expenseService]

getArrAvg(arr) == Call(arr, LAMBDA a : Div(ReduceSum(a), FromInt(Len(a))))

getInitialMetrics(this) ==
    [annualRent |-> Mul(this.deal.monthlyRent, FromInt(12)),
     cashFlow |-> Zero,
     principalPaid |-> Zero,
     appreciation |-> Zero,
     remainingBalance |-> getLoanAmount(this.mortgageService),
     totalPrincipalPaid |-> Zero,
     totalAppreciation |-> Zero]

calculatePrincipalReduction(this, remainingLoanBalance) ==
    Sub(Mul(getMonthlyMortgagePayment(this.mortgageService), FromInt(12)),
        Mul(remainingLoanBalance,
            Div(this.deal.annualMortgageInterestRate, FromInt(100))))

\* for (year = 1; year <= appreciationYear; year++) newRent *= rentIncreaseRate
RECURSIVE GrowRent(_, _, _, _)
GrowRent(newRent, rentIncreaseRate, year, appreciationYear) ==
    IF year > appreciationYear THEN newRent
    ELSE GrowRent(Mul(newRent, rentIncreaseRate), rentIncreaseRate,
                  year + 1, appreciationYear)

\* for (year = 1; year <= appreciationYear; year++)
\*   { prevValue = currValue; currValue *= 1 + SFH }
RECURSIVE GrowValue(_, _, _, _)
GrowValue(prevValue, currValue, year, appreciationYear) ==
    IF year > appreciationYear
    THEN [prevValue |-> prevValue, currValue |-> currValue]
    ELSE GrowValue(currValue, Mul(currValue, Add(One, APPRECIATION_RATES_SFH)),
                   year + 1, appreciationYear)

\* The multi-unit branch of calculateAppreciation, from the rent after
\* appreciationYear increases.
RentBasedAppreciation(this, rentIncreaseRate, newRent, prevRent, prevValue) ==
    Sub(Div(Mul(newRent, prevValue), prevRent), prevValue)

RentBasedValue(this, rentIncreaseRate, newRent, prevRent) ==
    Call(Div(Mul(prevRent, this.purchasePrice), this.deal.monthlyRent),
         LAMBDA prevValue :
             RentBasedAppreciation(this, rentIncreaseRate, newRent, prevRent, prevValue))

RentBased(this, rentIncreaseRate, newRent) ==
    Call(Div(newRent, rentIncreaseRate),
         LAMBDA prevRent : RentBasedValue(this, rentIncreaseRate, newRent, prevRent))

ValueBased(v) == Sub(v.currValue, v.prevValue)

\* A calculateAppreciation that takes the rent-based branch from five units,
\* the threshold of the management fee.
calculateAppreciation_FromFiveUnits(this, appreciationYear) ==
    IF appreciationYear < 1 THEN Zero
    ELSE IF Lt(FromInt(4), this.deal.unitCount)
    THEN Call(GrowRent(this.deal.monthlyRent, Add(One, APPRECIATION_RATES_RENT),
                       1, appreciationYear),
              LAMBDA newRent : RentBased(this, Add(One, APPRECIATION_RATES_RENT), newRent))
    ELSE Call(GrowValue(this.purchasePrice, this.purchasePrice, 1, appreciationYear),
              ValueBased)

calculateAppreciation(this, appreciationYear) ==
    IF appreciationYear < 1 THEN Zero
    ELSE IF Lt(One, this.deal.unitCount)
    THEN Call(GrowRent(this.deal.monthlyRent, Add(One, APPRECIATION_RATES_RENT),
                       1, appreciationYear),
              LAMBDA newRent : RentBased(this, Add(One, APPRECIATION_RATES_RENT), newRent))
    ELSE Call(GrowValue(this.purchasePrice, this.purchasePrice, 1, appreciationYear),
              ValueBased)

\* The object calculateYearlyMetrics returns, from prevMetrics and the
\* values of its locals annualRent, cashFlow, principalPaid and appreciation.
YearlyMetrics(prevMetrics, locals) ==
    [annualRent |-> locals.annualRent,
     cashFlow |-> locals.cashFlow,
     principalPaid |-> locals.principalPaid,
     appreciation |-> locals.appreciation,
     remainingBalance |-> Sub(prevMetrics.remainingBalance, locals.principalPaid),
     totalPrincipalPaid |-> Add(prevMetrics.totalPrincipalPaid, locals.principalPaid),
     totalAppreciation |-> Add(prevMetrics.totalAppreciation, locals.appreciation)]

\* const modifiedDeal = { ...this.deal, monthlyRent: prevMetrics.annualRent / 12 }
modifiedDeal(this, prevMetrics) ==
    [this.deal EXCEPT !.monthlyRent = Div(prevMetrics.annualRent, FromInt(12))]

\* A calculateYearlyMetrics that writes the year's rent into this.deal itself.
dealAfterYear_InPlace(this, prevMetrics) == modifiedDeal(this, prevMetrics)

\* The object this.deal after calculateYearlyMetrics: the spread copies its
\* fields into a new object, and nothing is assigned to this.deal.
dealAfterYear(this, prevMetrics) == this.deal

calculateYearlyMetrics(this, year, prevMetrics) ==
    Call2(prevMetrics,
          [cashFlow |->
               Sub(prevMetrics.annualRent,
                   getAnnualExpenses(
                       ExpenseCalculationService(
                           modifiedDeal(this, prevMetrics),
                           this.purchasePrice,
                           this.mortgageService)).totalAnnualExpenses),
           annualRent |-> Mul(prevMetrics.annualRent, Add(One, APPRECIATION_RATES_RENT)),
           principalPaid |->
               calculatePrincipalReduction(this, prevMetrics.remainingBalance),
           appreciation |-> calculateAppreciation(this, year)],
          YearlyMetrics)

getInitialInvestment(this) ==
    Add(getClosingCosts(this.expenseService), getDownPayment(this.mortgageService))

\* The projection loop shared by the four getters:
\*   let metrics = getInitialMetrics();
\*   for (year = 1; year <= years; year++) metrics = calculateYearlyMetrics(year, metrics)
\* as the sequence of the metrics of the years 0..years (year 0: the initial ones).
RECURSIVE ProjectFrom(_, _, _, _)
ProjectFrom(this, year, years, metrics) ==
    Call(metrics, LAMBDA acc :
        IF year > years THEN acc
        ELSE ProjectFrom(this, year + 1, years,
                         Append(acc, calculateYearlyMetrics(this, year, acc[Len(acc)]))))

\* The metrics of the years 1..years.
Projection(this, years) ==
    Tail(ProjectFrom(this, 1, years, <<getInitialMetrics(this)>>))

\* The object this.deal after the projection loop: what its last call of
\* calculateYearlyMetrics left (that of the year `years`, whose prevMetrics
\* are the metrics of the year before).
DealAfterProjection(this, years) ==
    IF years = 0 THEN this.deal
    ELSE Call(ProjectFrom(this, 1, years - 1, <<getInitialMetrics(this)>>),
              LAMBDA metrics : dealAfterYear(this, metrics[years]))

\* A getCashflows that takes trueCashflows after the equity was added.
CashflowsResult_SliceAfterBump(years, pushed, gainedEquity) ==
    [cashflows |-> [pushed EXCEPT ![years + 1] = Add(@, gainedEquity)],
     trueCashflows |-> SubSeq([pushed EXCEPT ![years + 1] = Add(@, gainedEquity)],
                              2, Len(pushed)),
     avgCashflow |-> getArrAvg(SubSeq([pushed EXCEPT ![years + 1] = Add(@, gainedEquity)],
                                      2, Len(pushed)))]

\* What getCashflows returns, from the cashflows array as pushed and the
\* gained equity; cashflows[years] += gainedEquity (index `years` of the
\* 0-based array).
CashflowsResult(years, pushed, gainedEquity) ==
    [cashflows |-> [pushed EXCEPT ![years + 1] = Add(@, gainedEquity)],
     trueCashflows |-> SubSeq(pushed, 2, Len(pushed)),
     avgCashflow |-> getArrAvg(SubSeq(pushed, 2, Len(pushed)))]

CashflowsOf(years, initialInvestment, proj) ==
    Call2(<<Neg(initialInvestment)>> \o [y \in 1..years |-> proj[y].cashFlow],
          IF years = 0 THEN Zero
          ELSE Add(proj[years].totalPrincipalPaid, proj[years].totalAppreciation),
          LAMBDA pushed, gainedEquity : CashflowsResult(years, pushed, gainedEquity))

getCashflows(this) ==
    Call2(getInitialInvestment(this), Projection(this, INVESTMENT_YEAR_TIME_HORIZON),
          LAMBDA initialInvestment, proj :
              CashflowsOf(INVESTMENT_YEAR_TIME_HORIZON, initialInvestment, proj))

\* What getReturns returns, from the two arrays it pushed to.
ReturnsResult(yields, amounts) ==
    [yields |-> yields,
     amounts |-> amounts,
     avgYield |-> getArrAvg(yields),
     avgAmount |-> getArrAvg(amounts)]

\* A getReturns whose yearly return leaves the appreciation out.
ReturnsOf_WithoutAppreciation(years, initialInvestment, proj) ==
    Call2([y \in 1..years |->
              Div(Add(proj[y].cashFlow, proj[y].principalPaid), initialInvestment)],
          [y \in 1..years |-> Add(proj[y].cashFlow, proj[y].principalPaid)],
          ReturnsResult)

ReturnsOf(years, initialInvestment, proj) ==
    Call2([y \in 1..years |->
              Div(Add(Add(proj[y].cashFlow, proj[y].principalPaid), proj[y].appreciation),
                  initialInvestment)],
          [y \in 1..years |->
              Add(Add(proj[y].cashFlow, proj[y].principalPaid), proj[y].appreciation)],
          ReturnsResult)

getReturns(this) ==
    Call2(getInitialInvestment(this), Projection(this, INVESTMENT_YEAR_TIME_HORIZON),
          LAMBDA initialInvestment, proj :
              ReturnsOf(INVESTMENT_YEAR_TIME_HORIZON, initialInvestment, proj))

PrincipalReductionsOf(years, proj) ==
    [principalReductions |-> [y \in 1..years |-> proj[y].principalPaid],
     avgPrincipalReduction |-> getArrAvg([y \in 1..years |-> proj[y].principalPaid]),
     totalPrincipalPaid |-> IF years = 0 THEN Zero
                            ELSE proj[years].totalPrincipalPaid]

getPrincipalReductions(this) ==
    Call(Projection(this, INVESTMENT_YEAR_TIME_HORIZON),
         LAMBDA proj : PrincipalReductionsOf(INVESTMENT_YEAR_TIME_HORIZON, proj))

AppreciationsOf(years, proj) ==
    [appreciations |-> [y \in 1..years |-> proj[y].appreciation],
     avgAppreciation |-> getArrAvg([y \in 1..years |-> proj[y].appreciation]),
     totalPrincipalPaid |-> IF years = 0 THEN Zero
                            ELSE proj[years].totalPrincipalPaid]

getAppreciations(this) ==
    Call(Projection(this, INVESTMENT_YEAR_TIME_HORIZON),
         LAMBDA proj : AppreciationsOf(INVESTMENT_YEAR_TIME_HORIZON, proj))

getAvgCOCROI(this) ==
    Div(getCashflows(this).avgCashflow, getInitialInvestment(this))

(***************************************************************************)
(* RealEstateDealAnalyser.checkDealCriteria, on the services the analyser  *)
(* holds.  src/RealEstateDealAnalyser.ts names the results 'max', 'good'   *)
(* and 'bad'; the other version names them 'max', 'low' and 'high'.        *)
(***************************************************************************)
\* The deal criteria of a market in which every price passes.
CriteriaAlwaysPass(measured, max, pass, fail) == pass

\* The test of checkDealCriteria on the values of its locals.
Criteria(measured, max, pass, fail) ==
    IF /\ Ge(measured.avgYield, measured.minimumROI)
       /\ Ge(measured.avgCashflow, measured.minimumCashflow)
       /\ Ge(measured.avgCOCROI, measured.minimumCOCROI)
    THEN (IF StrictEq(Floor(measured.avgCashflow), measured.minimumCashflow)
          THEN max ELSE pass)
    ELSE fail

\* The locals of checkDealCriteria.
Measured(input, returnService) ==
    [avgYield |-> getReturns(returnService).avgYield,
     avgCashflow |-> getCashflows(returnService).avgCashflow,
     avgCOCROI |-> getAvgCOCROI(returnService),
     minimumROI |-> MINIMUM_ROI,
     minimumCashflow |->
         Mul(Mul(MINIMUM_MONTHLY_CASHFLOW_PER_DOOR, input.unitCount), FromInt(12)),
     minimumCOCROI |-> MINIMUM_COC_ROI]

checkDealCriteria(input, returnService) ==
    Call(Measured(input, returnService),
         LAMBDA measured : Criteria(measured, "max", "good", "bad"))

(***************************************************************************)
(* The deals the analyser is constructed with.  RealEstateDealBuilder      *)
(* starts from these defaults and the caller overrides fields; salePrice   *)
(* is an integer number of dollars.                                        *)
(***************************************************************************)
BuilderDefaults ==
    [salePrice |-> 0,
     downpaymentPercentage |-> FromInt(20),
     annualMortgageInterestRate |-> Zero,
     mortgageAmortization |-> FromInt(25),
     propertyTaxRate |-> One,
     monthlyHoaDues |-> Zero,
     vacancyRate |-> Dec(2, 5000),
     monthlyRent |-> Zero,
     landlordPaidUtilities |-> FALSE,
     needsPropertyManagement |-> FALSE,
     unitCount |-> One,
     newConstruction |-> FALSE,
     closingEquity |-> Undefined]

Deal(downpayment, rate, amortization, rent, sale) ==
    [BuilderDefaults EXCEPT !.salePrice = sale,
                            !.downpaymentPercentage = FromInt(downpayment),
                            !.annualMortgageInterestRate = FromInt(rate),
                            !.mortgageAmortization = FromInt(amortization),
                            !.monthlyRent = rent]

\* List prices the deals are constructed with.
SalePrices == {50, 100}

\* Cash purchases, loans at a steep rate over one year, the builder's
\* default rate of 0 and a loan of zero years; rents are close to the
\* minimum cash flow per door, so the prices that meet the criteria are
\* small integers (for the rents 97.6 and 97.7 of the loan: price 0 only).
Deals ==
    UNION {{Deal(100, 5, 25, Dec(97, 7000), s),
            Deal(0, 120, 1, Dec(97, 6000), s),
            Deal(0, 120, 1, Dec(97, 7000), s),
            Deal(0, 120, 1, Dec(101, 0), s),
            Deal(0, 120, 1, Dec(101, 1000), s),
            Deal(0, 120, 1, Dec(101, 2000), s),
            Deal(0, 120, 1, Dec(101, 5000), s),
            Deal(20, 0, 25, FromInt(150), s),
            Deal(100, 5, 0, FromInt(150), s)} : s \in SalePrices}

\* The two versions of RealEstateDealAnalyser held in the repository.
Versions == {"RealEstateDealAnalyser.ts", "part_003"}

\* The largest price the doubling phase may reach in the model.
MaxPrice == 1024

(***************************************************************************)
(* RealEstateDealAnalyser                                                  *)
(***************************************************************************)
VARIABLES
    ver,              \* which version of the class this analyser is
    deal,             \* this.input / this.deal
    purchasePrice,    \* this.purchasePrice
    mortgageService,  \* this.mortgageService
    expenseService,   \* this.expenseService
    returnService,    \* this.returnService
    pc,               \* "idle", or the position inside adjustToMaxPurchasePrice
    left, right,      \* the bounds of the binary search
    tested,           \* the classifications made by the adjustment that ran last
    lastOp            \* the operation that returned last

analyserVars ==
    <<ver, deal, purchasePrice, mortgageService, expenseService, returnService,
      pc, left, right, tested, lastOp>>

\* A construction that keeps a return service built at the price 1.
initializeServices_Stale(input, price) ==
    LET ms == MortgageCalculationService(input, FromInt(price))
        es == ExpenseCalculationService(input, FromInt(price), ms)
        rs == ReturnCalculationService(input, FromInt(1), ms, es)
    IN  [mortgageService |-> ms, expenseService |-> es, returnService |-> rs]

\* src/RealEstateDealAnalyser.ts: the three services, built at the price given.
initializeServices(input, price) ==
    LET ms == MortgageCalculationService(input, FromInt(price))
        es == ExpenseCalculationService(input, FromInt(price), ms)
        rs == ReturnCalculationService(input, FromInt(price), ms, es)
    IN  [mortgageService |-> ms, expenseService |-> es, returnService |-> rs]

\* src/unnamed/part_003: the same construction under its other name.
analyzeDeal(input, price) ==
    LET ms == MortgageCalculationService(input, FromInt(price))
        es == ExpenseCalculationService(input, FromInt(price), ms)
        rs == ReturnCalculationService(input, FromInt(price), ms, es)
    IN  [mortgageService |-> ms, expenseService |-> es, returnService |-> rs]

\* src/unnamed/part_003 checkDealCriteria, after its call of analyzeDeal.
checkDealCriteria_part_003(input, rs) ==
    Call(Measured(input, rs),
         LAMBDA measured : Criteria(measured, "max", "low", "high"))

\* The prices the services reachable from a return service were built with.
BuiltAt(ms, es, rs) ==
    {ms.purchasePrice, es.purchasePrice, es.mortgageService.purchasePrice,
     rs.purchasePrice, rs.mortgageService.purchasePrice,
     rs.expenseService.purchasePrice,
     rs.expenseService.mortgageService.purchasePrice}

\* One classification, as the search records it.
Tested(phase, price, ms, es, rs, result) ==
    [phase |-> phase, price |-> price, builtAt |-> BuiltAt(ms, es, rs),
     result |-> result]
(***************************************************************************)
(* ReturnCalculationService.calculateIRR and getIRR, one loop iteration    *)
(* per step.                                                               *)
(***************************************************************************)
VARIABLES
    cashflows,   \* the series handed to calculateIRR
    low, high,   \* the bisection interval
    i,           \* the loop counter
    mid, npv,    \* the midpoint and net present value computed last
    irrPc,       \* "loop", "returned", "threw", "done" ("off": not in use)
    irr          \* what getIRR returned

irrVars == <<cashflows, low, high, i, mid, npv, irrPc, irr>>

maxIterations == 1000

\* tolerance is 1e-6, kept as its inverse: it is finer than 1/SCALE.
toleranceInverse == 10 ^ 6

\* A tolerance of 100 in place of 1e-6.
LtToleranceLoose(x) == IsFin(x) /\ x.v <= 100 * SCALE

\* x < tolerance, for x >= 0.
LtTolerance(x) == IsFin(x) /\ x.v <= (SCALE - 1) \div toleranceInverse

RECURSIVE NpvFrom(_, _, _, _)
NpvFrom(cfs, rate, index, acc) ==
    IF index > Len(cfs) THEN acc
    ELSE NpvFrom(cfs, rate, index + 1,
                 Add(acc, Div(cfs[index], Pow(Add(One, rate), FromInt(index - 1)))))

\* cashflows.reduce((acc, cashflow, index) => acc + cashflow / (1 + mid) ** index, 0)
Npv(cfs, rate) == NpvFrom(cfs, rate, 1, Zero)

\* calculateIRR as a function of its argument: the loop that IRRIterate takes
\* one iteration at a time, run to its end.  threw: the loop ended without a
\* return and the Error was thrown.  An iteration that leaves low and high as
\* they were is repeated unchanged by every later one, so the loop then runs
\* to maxIterations and throws; IRRLoopAgreesWithSteps compares the result
\* with the loop taken step by step.
RECURSIVE IRRLoop(_, _, _, _)
IRRLoop(cfs, lo, hi, iter) ==
    IF iter >= maxIterations THEN [threw |-> TRUE, value |-> Undefined]
    ELSE Call(Div(Add(lo, hi), FromInt(2)), LAMBDA m :
         Call(Npv(cfs, m), LAMBDA v :
             IF LtTolerance(Abs(v)) THEN [threw |-> FALSE, value |-> m]
             ELSE IF Lt(v, Zero)
             THEN IF m = hi THEN [threw |-> TRUE, value |-> Undefined]
                  ELSE IRRLoop(cfs, lo, m, iter + 1)
             ELSE IF m = lo THEN [threw |-> TRUE, value |-> Undefined]
                  ELSE IRRLoop(cfs, m, hi, iter + 1)))

calculateIRR(cfs) == IRRLoop(cfs, Zero, One, 0)

\* getIRR as a function of the service: calculateIRR on the cash flows, and 0
\* from the catch block when it threw or gave NaN.
IRROf(this) ==
    Call(calculateIRR(getCashflows(this).cashflows), LAMBDA r :
        IF r.threw \/ r.value.k = "undef" \/ IsNaN(r.value) THEN Zero ELSE r.value)

\* The series getIRR is asked about: hand-made ones and the cash flows of
\* deals at a price.
CashflowSeries ==
    {<<FromInt(-1000), FromInt(1100)>>,
     <<FromInt(-1000), FromInt(1250)>>,
     <<FromInt(-1000), FromInt(900)>>,
     <<FromInt(-1000), FromInt(2500)>>,
     <<NaN, FromInt(1100)>>,
     <<FromInt(-1000)>>,
     <<>>}
    \cup {getCashflows(initializeServices(d, 32).returnService).cashflows :
            d \in {Deal(100, 5, 25, Dec(97, 7000), 50), Deal(20, 0, 25, FromInt(150), 50)}}

\* One iteration of the loop of calculateIRR.
IRRIterate ==
    /\ irrPc = "loop"
    /\ i < maxIterations
    /\ \E m \in {Div(Add(low, high), FromInt(2))} :
       \E v \in {Npv(cashflows, m)} :
           /\ mid' = m
           /\ npv' = v
           /\ IF LtTolerance(Abs(v))
              THEN /\ irrPc' = "returned"
                   /\ UNCHANGED <<low, high, i>>
              ELSE /\ IF Lt(v, Zero)
                      THEN high' = m /\ low' = low
                      ELSE low' = m /\ high' = high
                   /\ i' = i + 1
                   /\ irrPc' = "loop"
    /\ UNCHANGED <<cashflows, irr>>

\* The loop ran maxIterations times: calculateIRR throws.
IRRThrow ==
    /\ irrPc = "loop"
    /\ i >= maxIterations
    /\ irrPc' = "threw"
    /\ UNCHANGED <<cashflows, low, high, i, mid, npv, irr>>

\* A getIRR without its catch block: the failure reaches the caller.
getIRR_NoCatch ==
    /\ irrPc \in {"returned", "threw"}
    /\ irr' = IF irrPc = "returned" THEN mid ELSE NaN
    /\ irrPc' = "done"
    /\ UNCHANGED <<cashflows, low, high, i, mid, npv>>

\* getIRR: the value calculateIRR returned, or 0 from the catch block.
getIRR ==
    /\ irrPc \in {"returned", "threw"}
    /\ irr' = IF irrPc = "returned" /\ mid.k # "undef" /\ ~IsNaN(mid)
              THEN mid
              ELSE Zero
    /\ irrPc' = "done"
    /\ UNCHANGED <<cashflows, low, high, i, mid, npv>>

IRRInit ==
    /\ cashflows \in CashflowSeries
    /\ low = Zero
    /\ high = One
    /\ i = 0
    /\ mid = Undefined
    /\ npv = Undefined
    /\ irrPc = "loop"
    /\ irr = Undefined

IRROff ==
    /\ cashflows = <<>>
    /\ low = Zero
    /\ high = One
    /\ i = 0
    /\ mid = Undefined
    /\ npv = Undefined
    /\ irrPc = "off"
    /\ irr = Undefined

(***************************************************************************)
(* MortgageCalculationService.getMonthlyMortgagePayment on its own         *)
(***************************************************************************)
VARIABLES
    service,    \* the mortgage service called
    called,     \* whether getMonthlyMortgagePayment has returned
    payment     \* what it returned

mortgageVars == <<service, called, payment>>

DownpaymentPercentages == {0, 10, 19, 20, 21, 100}
InterestRates == {0, 5, 12}
Amortizations == {0, 1, 25}
PurchasePrices == {0, 1, 50, 1000}

MortgageInit ==
    /\ service \in {MortgageCalculationService(Deal(d, r, a, Zero, p), FromInt(p)) :
                      d \in DownpaymentPercentages, r \in InterestRates,
                      a \in Amortizations, p \in PurchasePrices}
    /\ called = FALSE
    /\ payment = Undefined

MortgageOff ==
    /\ service = MortgageCalculationService(BuilderDefaults, Zero)
    /\ called = FALSE
    /\ payment = Undefined

CallGetMonthlyMortgagePayment ==
    /\ ~called
    /\ called' = TRUE
    /\ payment' = getMonthlyMortgagePayment(service)
    /\ UNCHANGED service
(***************************************************************************)
(* The services called on their own: one call of one method on services    *)
(* built for a deal at a price.                                            *)
(***************************************************************************)
VARIABLES
    subject,    \* the deal and the price the services under call were built with
    out         \* the method called and what it returned ("none": not called)

pipelineVars == <<subject, out>>

\* The deal terms the services are built with: dues below, at and above 0,
\* unit counts around the management threshold, closing equity missing,
\* small and larger than the price, the default rate of 0 and a rate of 5%.
PipelineDeals ==
    {[Deal(10, rate, 25, FromInt(rent), 0) EXCEPT
          !.monthlyHoaDues = FromInt(dues),
          !.needsPropertyManagement = management,
          !.unitCount = FromInt(units),
          !.closingEquity = equity] :
        rate \in {0, 5}, rent \in {50, 150}, dues \in {-50, 0, 50},
        management \in BOOLEAN, units \in {1, 4, 5},
        equity \in {Undefined, FromInt(30), FromInt(2000)}}

PipelinePrices == {1, 32, 1000}

\* Each deal at each price, and a cash purchase at a price at which only the
\* yield falls short.
PipelineSubjects ==
    [deal : PipelineDeals \cup Deals, price : PipelinePrices]
        \cup {[deal |-> Deal(100, 5, 25, FromInt(150), 0), price |-> 8192]}

PipelineInit ==
    /\ subject \in PipelineSubjects
    /\ out = [method |-> "none"]

PipelineOff ==
    /\ subject = [deal |-> BuilderDefaults, price |-> 0]
    /\ out = [method |-> "none"]

\* The three services as the analyser builds them for the subject.
SubjectServices == initializeServices(subject.deal, subject.price)

\* expenseService.getAnnualExpenses()
CallGetAnnualExpenses ==
    /\ out.method = "none"
    /\ out' = [method |-> "getAnnualExpenses",
               value |-> getAnnualExpenses(SubjectServices.expenseService)]
    /\ UNCHANGED subject

\* mortgageService.getLoanAmount(), getMonthlyMortgagePayment() and the
\* initial metrics of the projection, one after the other.
CallLoanGetters ==
    /\ out.method = "none"
    /\ out' = [method |-> "getLoanAmount",
               value |->
                   [loanAmount |-> getLoanAmount(SubjectServices.mortgageService),
                    monthlyMortgagePayment |->
                        getMonthlyMortgagePayment(SubjectServices.mortgageService),
                    initialMetrics |-> getInitialMetrics(SubjectServices.returnService)]]
    /\ UNCHANGED subject

\* returnService.getCashflows()
CallGetCashflows ==
    /\ out.method = "none"
    /\ out' = [method |-> "getCashflows",
               value |-> getCashflows(SubjectServices.returnService)]
    /\ UNCHANGED subject

\* The projection loop every getter of the return service runs:
\* getInitialMetrics(), then calculateYearlyMetrics(year, metrics) for the
\* years 1..INVESTMENT_YEAR_TIME_HORIZON; value[k + 1] holds the metrics of
\* the year k.
CallProjection ==
    /\ out.method = "none"
    /\ out' = [method |-> "projection",
               value |-> ProjectFrom(SubjectServices.returnService, 1,
                                     INVESTMENT_YEAR_TIME_HORIZON,
                                     <<getInitialMetrics(SubjectServices.returnService)>>)]
    /\ UNCHANGED subject

\* calculateAppreciation(appreciationYear) for each year from 0 to the horizon.
CallCalculateAppreciation ==
    /\ out.method = "none"
    /\ out' = [method |-> "calculateAppreciation",
               value |-> [year \in 0..INVESTMENT_YEAR_TIME_HORIZON |->
                             calculateAppreciation(SubjectServices.returnService, year)]]
    /\ UNCHANGED subject

\* The four getters that run the projection, called one after the other on
\* the same return service.
CallProjectionGetters ==
    /\ out.method = "none"
    /\ out' = [method |-> "projection getters",
               cashflows |-> getCashflows(SubjectServices.returnService),
               returns |-> getReturns(SubjectServices.returnService),
               principalReductions |->
                   getPrincipalReductions(SubjectServices.returnService),
               appreciations |-> getAppreciations(SubjectServices.returnService)]
    /\ UNCHANGED subject

\* checkDealCriteria() of either version of the analyser, with the values
\* of its locals.
CallCheckDealCriteria ==
    /\ out.method = "none"
    /\ \E v \in Versions :
       \E s \in {IF v = "part_003" THEN analyzeDeal(subject.deal, subject.price)
                 ELSE initializeServices(subject.deal, subject.price)} :
           out' = [method |-> "checkDealCriteria",
                   ver |-> v,
                   measured |-> Measured(subject.deal, s.returnService),
                   value |-> IF v = "part_003"
                             THEN checkDealCriteria_part_003(subject.deal, s.returnService)
                             ELSE checkDealCriteria(subject.deal, s.returnService)]
    /\ UNCHANGED subject

\* The arrays getArrAvg is called with: none, one and several entries.
ArrAvgInputs ==
    {<<>>, <<FromInt(7)>>, <<FromInt(1), FromInt(2)>>,
     <<FromInt(-3), FromInt(4), Dec(0, 5000), FromInt(10), FromInt(1)>>}

\* ReturnCalculationService.getArrAvg(arr)
CallGetArrAvg ==
    /\ out.method = "none"
    /\ \E arr \in ArrAvgInputs :
           out' = [method |-> "getArrAvg", arr |-> arr, value |-> getArrAvg(arr)]
    /\ UNCHANGED subject

\* The prices a deal is classified at, one after the other: the small ones,
\* the ones around which the classification of the deals changes, and large
\* ones.
TablePrices ==
    {0, 1, 2, 3, 4, 8, 16, 23, 24, 25, 26, 27, 32, 56, 57, 64, 128, 1024, 8192, 16384}

\* The prices of the table for a deal: the payments of a loan at a rate
\* above 100% leave the integer range at the largest prices.
TablePricesOf(d) ==
    IF d.annualMortgageInterestRate.v > 100 * SCALE
    THEN {p \in TablePrices : p <= MaxPrice}
    ELSE TablePrices

\* checkDealCriteria() at each price of the table, on services built for
\* the subject's deal at that price (single-unit deals: the rent-based
\* appreciation of a multi-unit deal leaves the integer range at large prices).
CallCheckDealCriteriaAtPrices ==
    /\ out.method = "none"
    /\ subject.price = 1
    /\ subject.deal.unitCount = One
    /\ \E v \in Versions :
           out' = [method |-> "checkDealCriteria at prices",
                   ver |-> v,
                   value |->
                       [p \in TablePricesOf(subject.deal) |->
                           IF v = "part_003"
                           THEN checkDealCriteria_part_003(
                                    subject.deal, analyzeDeal(subject.deal, p).returnService)
                           ELSE checkDealCriteria(
                                    subject.deal, initializeServices(subject.deal, p).returnService)]]
    /\ UNCHANGED subject

(***************************************************************************)
(* The analyser's operations.  adjustToMaxPurchasePrice takes one step per *)
(* evaluation of a loop condition together with the loop body it guards.   *)
(***************************************************************************)
IsTooLow(result) == result \in {"bad", "high"}
IsExactMinimum(result) == result = "max"

\* constructor(input): the list price, then the services.
AnalyserInit ==
    /\ ver \in Versions
    /\ deal \in Deals
    /\ purchasePrice = deal.salePrice
    /\ LET s == IF ver = "part_003" THEN analyzeDeal(deal, deal.salePrice)
                ELSE initializeServices(deal, deal.salePrice)
       IN  /\ mortgageService = s.mortgageService
           /\ expenseService = s.expenseService
           /\ returnService = s.returnService
    /\ pc = "idle"
    /\ left = 0
    /\ right = 0
    /\ tested = <<>>
    /\ lastOp = "constructor"

\* An adjustment that starts the doubling at the sale price.
AdjustStart_FromSalePrice ==
    /\ pc = "idle"
    /\ purchasePrice' = deal.salePrice
    /\ IF ver = "part_003"
       THEN UNCHANGED <<mortgageService, expenseService, returnService>>
       ELSE LET s == initializeServices(deal, deal.salePrice)
            IN  /\ mortgageService' = s.mortgageService
                /\ expenseService' = s.expenseService
                /\ returnService' = s.returnService
    /\ pc' = "expand"
    /\ tested' = <<>>
    /\ UNCHANGED <<ver, deal, left, right, lastOp>>

\* adjustToMaxPurchasePrice, up to the first loop: the price becomes 1;
\* src/RealEstateDealAnalyser.ts rebuilds the services here, part_003 leaves
\* that to checkDealCriteria.
AdjustStart ==
    /\ pc = "idle"
    /\ purchasePrice' = 1
    /\ IF ver = "part_003"
       THEN UNCHANGED <<mortgageService, expenseService, returnService>>
       ELSE LET s == initializeServices(deal, 1)
            IN  /\ mortgageService' = s.mortgageService
                /\ expenseService' = s.expenseService
                /\ returnService' = s.returnService
    /\ pc' = "expand"
    /\ tested' = <<>>
    /\ UNCHANGED <<ver, deal, left, right, lastOp>>

\* The doubling loop of src/RealEstateDealAnalyser.ts: classify with the
\* services held; double the price and rebuild them, or go on to the search.
ExpandStep_ts ==
    /\ pc = "expand"
    /\ ver = "RealEstateDealAnalyser.ts"
    /\ \E result \in {checkDealCriteria(deal, returnService)} :
           /\ tested' = Append(tested, Tested("expand", purchasePrice, mortgageService,
                                              expenseService, returnService, result))
           /\ IF result # "bad"
              THEN /\ 2 * purchasePrice <= MaxPrice
                   /\ purchasePrice' = 2 * purchasePrice
                   /\ LET s == initializeServices(deal, 2 * purchasePrice)
                      IN  /\ mortgageService' = s.mortgageService
                          /\ expenseService' = s.expenseService
                          /\ returnService' = s.returnService
                   /\ UNCHANGED <<pc, left, right>>
              ELSE /\ left' = 0
                   /\ right' = purchasePrice
                   /\ pc' = "search"
                   /\ UNCHANGED <<purchasePrice, mortgageService, expenseService,
                                  returnService>>
    /\ UNCHANGED <<ver, deal, lastOp>>

\* The doubling loop of part_003: checkDealCriteria rebuilds the services
\* and classifies; then the price doubles, or the search begins.
ExpandStep_part_003 ==
    /\ pc = "expand"
    /\ ver = "part_003"
    /\ \E s \in {analyzeDeal(deal, purchasePrice)} :
       \E result \in {checkDealCriteria_part_003(deal, s.returnService)} :
           /\ mortgageService' = s.mortgageService
           /\ expenseService' = s.expenseService
           /\ returnService' = s.returnService
           /\ tested' = Append(tested, Tested("expand", purchasePrice, s.mortgageService,
                                              s.expenseService, s.returnService, result))
           /\ IF result # "high"
              THEN /\ 2 * purchasePrice <= MaxPrice
                   /\ purchasePrice' = 2 * purchasePrice
                   /\ UNCHANGED <<pc, left, right>>
              ELSE /\ left' = 0
                   /\ right' = purchasePrice
                   /\ pc' = "search"
                   /\ UNCHANGED purchasePrice
    /\ UNCHANGED <<ver, deal, lastOp>>

\* A binary search that lowers right to the rejected midpoint itself.
SearchStep_ts_KeepsMidpoint ==
    /\ pc = "search"
    /\ ver = "RealEstateDealAnalyser.ts"
    /\ left <= right
    /\ \E middle \in {(left + right) \div 2} :
       \E s \in {initializeServices(deal, middle)} :
       \E dealAnalysisResult \in {checkDealCriteria(deal, s.returnService)} :
           /\ purchasePrice' = middle
           /\ mortgageService' = s.mortgageService
           /\ expenseService' = s.expenseService
           /\ returnService' = s.returnService
           /\ tested' = Append(tested, Tested("search", middle, s.mortgageService,
                                              s.expenseService, s.returnService,
                                              dealAnalysisResult))
           /\ IF dealAnalysisResult = "bad"
              THEN /\ right' = IF middle > left THEN middle ELSE middle - 1
                   /\ left' = left
                   /\ pc' = "search"
              ELSE /\ left' = middle + 1
                   /\ right' = right
                   /\ pc' = IF dealAnalysisResult = "max" THEN "break" ELSE "search"
    /\ UNCHANGED <<ver, deal, lastOp>>

\* One iteration of the binary search of src/RealEstateDealAnalyser.ts.
SearchStep_ts ==
    /\ pc = "search"
    /\ ver = "RealEstateDealAnalyser.ts"
    /\ left <= right
    /\ \E middle \in {(left + right) \div 2} :
       \E s \in {initializeServices(deal, middle)} :
       \E dealAnalysisResult \in {checkDealCriteria(deal, s.returnService)} :
           /\ purchasePrice' = middle
           /\ mortgageService' = s.mortgageService
           /\ expenseService' = s.expenseService
           /\ returnService' = s.returnService
           /\ tested' = Append(tested, Tested("search", middle, s.mortgageService,
                                              s.expenseService, s.returnService,
                                              dealAnalysisResult))
           /\ IF dealAnalysisResult = "bad"
              THEN /\ right' = middle - 1
                   /\ left' = left
                   /\ pc' = "search"
              ELSE /\ left' = middle + 1
                   /\ right' = right
                   /\ pc' = IF dealAnalysisResult = "max" THEN "break" ELSE "search"
    /\ UNCHANGED <<ver, deal, lastOp>>

\* One iteration of the binary search of part_003.
SearchStep_part_003 ==
    /\ pc = "search"
    /\ ver = "part_003"
    /\ left <= right
    /\ \E middle \in {(left + right) \div 2} :
       \E s \in {analyzeDeal(deal, middle)} :
       \E dealAnalysisResult \in {checkDealCriteria_part_003(deal, s.returnService)} :
           /\ purchasePrice' = middle
           /\ mortgageService' = s.mortgageService
           /\ expenseService' = s.expenseService
           /\ returnService' = s.returnService
           /\ tested' = Append(tested, Tested("search", middle, s.mortgageService,
                                              s.expenseService, s.returnService,
                                              dealAnalysisResult))
           /\ IF dealAnalysisResult = "max"
              THEN /\ pc' = "break"
                   /\ UNCHANGED <<left, right>>
              ELSE IF dealAnalysisResult = "high"
              THEN /\ right' = middle - 1
                   /\ left' = left
                   /\ pc' = "search"
              ELSE /\ left' = middle + 1
                   /\ right' = right
                   /\ pc' = "search"
    /\ UNCHANGED <<ver, deal, lastOp>>

\* An adjustment that takes the price below left, not right, after the loop.
AdjustFinish_TakesLeft ==
    /\ \/ pc = "break"
       \/ pc = "search" /\ left > right
    /\ purchasePrice' = left - 1
    /\ LET s == IF ver = "part_003" THEN analyzeDeal(deal, left - 1)
                ELSE initializeServices(deal, left - 1)
       IN  /\ mortgageService' = s.mortgageService
           /\ expenseService' = s.expenseService
           /\ returnService' = s.returnService
    /\ pc' = "idle"
    /\ left' = 0
    /\ right' = 0
    /\ lastOp' = "adjust"
    /\ UNCHANGED <<ver, deal, tested>>

\* After the loop, in both versions: the price becomes right, the services
\* are rebuilt and the method returns.
AdjustFinish ==
    /\ \/ pc = "break"
       \/ pc = "search" /\ left > right
    /\ purchasePrice' = right
    /\ LET s == IF ver = "part_003" THEN analyzeDeal(deal, right)
                ELSE initializeServices(deal, right)
       IN  /\ mortgageService' = s.mortgageService
           /\ expenseService' = s.expenseService
           /\ returnService' = s.returnService
    /\ pc' = "idle"
    /\ left' = 0
    /\ right' = 0
    /\ lastOp' = "adjust"
    /\ UNCHANGED <<ver, deal, tested>>

\* resetPurchasePriceAdjustment.
resetPurchasePriceAdjustment ==
    /\ pc = "idle"
    /\ purchasePrice' = deal.salePrice
    /\ LET s == IF ver = "part_003" THEN analyzeDeal(deal, deal.salePrice)
                ELSE initializeServices(deal, deal.salePrice)
       IN  /\ mortgageService' = s.mortgageService
           /\ expenseService' = s.expenseService
           /\ returnService' = s.returnService
    /\ lastOp' = "reset"
    /\ UNCHANGED <<ver, deal, pc, left, right, tested>>

AdjustStep ==
    \/ ExpandStep_ts
    \/ ExpandStep_part_003
    \/ SearchStep_ts
    \/ SearchStep_part_003
    \/ AdjustFinish

(***************************************************************************)
(* Calls on an idle analyser: the getters of its return service and the    *)
(* report.  The caller's deal, the analyser's input and the deal of every  *)
(* service are one object, so what a call leaves in this.deal is what all  *)
(* of them hold afterwards.                                                *)
(***************************************************************************)
VARIABLES
    got,     \* the getter result kept for comparison, and the later one
    report   \* what getFullResultsMarkdown returned to the caller

callVars == <<got, report>>

NoCall == [method |-> "none"]

CallsOff == got = NoCall /\ report = NoCall

ReturnGetters == {"getCashflows", "getReturns", "getAvgCOCROI", "getIRR"}

\* returnService[g]()
GetterValue(g, this) ==
    CASE g = "getCashflows" -> getCashflows(this)
      [] g = "getReturns" -> getReturns(this)
      [] g = "getAvgCOCROI" -> getAvgCOCROI(this)
      [] g = "getIRR" -> IRROf(this)

\* The one deal object holds d: the analyser and its services see it.
SharedDealBecomes(d) ==
    /\ deal' = d
    /\ mortgageService' = [mortgageService EXCEPT !.deal = d]
    /\ expenseService' = [expenseService EXCEPT !.deal = d, !.mortgageService.deal = d]
    /\ returnService' = [returnService EXCEPT !.deal = d,
                                               !.mortgageService.deal = d,
                                               !.expenseService.deal = d,
                                               !.expenseService.mortgageService.deal = d]

\* One call of a getter of the return service the analyser holds.  got keeps
\* the first result with the price and the operation it followed; a later
\* call of the same getter at the same price sets again, any other call
\* before that sets between.
CallReturnGetter(g) ==
    /\ pc = "idle"
    /\ \E value \in {GetterValue(g, returnService)} :
       \E d \in {DealAfterProjection(returnService, INVESTMENT_YEAR_TIME_HORIZON)} :
           /\ got' = IF got.method = "none"
                     THEN [method |-> g, price |-> purchasePrice, after |-> lastOp,
                           value |-> value, between |-> FALSE, again |-> <<>>]
                     ELSE IF got.method = g /\ got.price = purchasePrice
                     THEN [got EXCEPT !.again = <<value>>]
                     ELSE IF got.again = <<>>
                     THEN [got EXCEPT !.between = TRUE]
                     ELSE got
           /\ SharedDealBecomes(d)
    /\ UNCHANGED <<ver, purchasePrice, pc, left, right, tested, lastOp, report>>

\* A title that calls the price adjusted only when it went up.
isPurchasePriceAdjusted_WhenRaised(price, input) == price > input.salePrice

\* const isPurchasePriceAdjusted = this.purchasePrice !== this.input.salePrice
isPurchasePriceAdjusted(price, input) == price # input.salePrice

\* getFullResultsMarkdown: the title of the report and the price it names
\* (the sections are formatted from the getters' values; each getter it
\* calls runs the projection).
getFullResultsMarkdown ==
    /\ pc = "idle"
    /\ report' = IF isPurchasePriceAdjusted(purchasePrice, deal)
                 THEN [method |-> "getFullResultsMarkdown",
                       title |-> "Maximum Purchase Price Analysis",
                       at |-> purchasePrice]
                 ELSE [method |-> "getFullResultsMarkdown",
                       title |-> "Sale Price Analysis",
                       at |-> deal.salePrice]
    /\ \E d \in {DealAfterProjection(returnService, INVESTMENT_YEAR_TIME_HORIZON)} :
           SharedDealBecomes(d)
    /\ UNCHANGED <<ver, purchasePrice, pc, left, right, tested, lastOp, got>>

(***************************************************************************)
(* RealEstateDealBuilder.  The builder holds a reference to a deal object; *)
(* heap maps the deal objects allocated so far to their fields.            *)
(***************************************************************************)
VARIABLES
    heap,         \* the deal objects: their fields, or NoObject before allocation
    builderDeal,  \* this.deal of the builder: a reference into heap
    built,        \* per call of build(): the reference returned and the fields then
    constructed   \* the analyser constructed from a built deal, if any

builderVars == <<heap, builderDeal, built, constructed>>

\* The deal objects one builder allocates and the calls of build() followed.
MaxObjects == 2
MaxBuilds == 2

NoObject == [allocated |-> FALSE]

\* constructor(): this.deal = { the defaults }
BuilderInit ==
    /\ heap = [o \in 1..MaxObjects |-> IF o = 1 THEN BuilderDefaults ELSE NoObject]
    /\ builderDeal = 1
    /\ built = <<>>
    /\ constructed = NoObject

BuilderOff ==
    /\ heap = [o \in 1..MaxObjects |-> NoObject]
    /\ builderDeal = 0
    /\ built = <<>>
    /\ constructed = NoObject

\* { ...deal, ...partialDeal }
Spread(d, partialDeal) ==
    [f \in DOMAIN d |-> IF f \in DOMAIN partialDeal THEN partialDeal[f] ELSE d[f]]

PartialDeals == {[monthlyRent |-> Zero], [salePrice |-> 0, monthlyRent |-> FromInt(150)]}

\* setDeal(partialDeal): this.deal becomes a new object.
setDeal ==
    /\ builderDeal > 0
    /\ \E o \in 1..MaxObjects : \E partialDeal \in PartialDeals :
           /\ heap[o] = NoObject
           /\ \A n \in 1..(o - 1) : heap[n] # NoObject
           /\ heap' = [heap EXCEPT ![o] = Spread(heap[builderDeal], partialDeal)]
           /\ builderDeal' = o
    /\ UNCHANGED <<built, constructed>>

\* The arguments the setters are called with (setSalePrice and
\* setMonthlyRent; the other setters are the same assignment to their field).
SetterCalls == {<<"salePrice", 50>>, <<"monthlyRent", FromInt(150)>>}

\* setSalePrice(price), setMonthlyRent(rent), ...: this.deal.field = value,
\* an assignment to the object this.deal refers to.
setField ==
    /\ builderDeal > 0
    /\ \E call \in SetterCalls :
           heap' = [heap EXCEPT ![builderDeal][call[1]] = call[2]]
    /\ UNCHANGED <<builderDeal, built, constructed>>

\* build(): return this.deal, the reference itself.
build ==
    /\ builderDeal > 0
    /\ Len(built) < MaxBuilds
    /\ built' = Append(built, [ref |-> builderDeal, deal |-> heap[builderDeal]])
    /\ UNCHANGED <<heap, builderDeal, constructed>>

\* new RealEstateDealAnalyser(deal) for a deal build() returned: the analyser
\* keeps the reference and takes its purchase price from the sale price.
constructAnalyser ==
    /\ constructed = NoObject
    /\ \E k \in 1..Len(built) :
           constructed' = [allocated |-> TRUE,
                           input |-> built[k].ref,
                           purchasePrice |-> heap[built[k].ref].salePrice,
                           deal |-> heap[built[k].ref]]
    /\ UNCHANGED <<heap, builderDeal, built>>

vars == <<analyserVars, irrVars, mortgageVars, pipelineVars, callVars, builderVars>>

Init == AnalyserInit /\ IRROff /\ MortgageOff /\ PipelineOff /\ CallsOff /\ BuilderOff

Next ==
    \/ AdjustStart /\ UNCHANGED <<irrVars, mortgageVars, pipelineVars, callVars, builderVars>>
    \/ ExpandStep_ts /\ UNCHANGED <<irrVars, mortgageVars, pipelineVars, callVars, builderVars>>
    \/ ExpandStep_part_003 /\ UNCHANGED <<irrVars, mortgageVars, pipelineVars, callVars, builderVars>>
    \/ SearchStep_ts /\ UNCHANGED <<irrVars, mortgageVars, pipelineVars, callVars, builderVars>>
    \/ SearchStep_part_003 /\ UNCHANGED <<irrVars, mortgageVars, pipelineVars, callVars, builderVars>>
    \/ AdjustFinish /\ UNCHANGED <<irrVars, mortgageVars, pipelineVars, callVars, builderVars>>
    \/ resetPurchasePriceAdjustment /\ UNCHANGED <<irrVars, mortgageVars, pipelineVars, callVars, builderVars>>

Spec == Init /\ [][Next]_vars

\* A call of adjustToMaxPurchasePrice that has begun keeps running.
FairSpec == Spec /\ WF_vars(AdjustStep /\ UNCHANGED <<irrVars, mortgageVars, pipelineVars, callVars, builderVars>>)

(***************************************************************************)
(* getIRR and getMonthlyMortgagePayment on their own: the specifications   *)
(* that call one function on inputs drawn from small sets.                 *)
(***************************************************************************)
AnalyserOff ==
    /\ ver = "none"
    /\ deal = BuilderDefaults
    /\ purchasePrice = 0
    /\ mortgageService = initializeServices(BuilderDefaults, 0).mortgageService
    /\ expenseService = initializeServices(BuilderDefaults, 0).expenseService
    /\ returnService = initializeServices(BuilderDefaults, 0).returnService
    /\ pc = "off"
    /\ left = 0
    /\ right = 0
    /\ tested = <<>>
    /\ lastOp = "none"

InitIRR == AnalyserOff /\ IRRInit /\ MortgageOff /\ PipelineOff /\ CallsOff /\ BuilderOff

NextIRR ==
    \/ IRRIterate /\ UNCHANGED <<analyserVars, mortgageVars, pipelineVars, callVars, builderVars>>
    \/ IRRThrow /\ UNCHANGED <<analyserVars, mortgageVars, pipelineVars, callVars, builderVars>>
    \/ getIRR /\ UNCHANGED <<analyserVars, mortgageVars, pipelineVars, callVars, builderVars>>

SpecIRR == InitIRR /\ [][NextIRR]_vars

InitMortgage == AnalyserOff /\ IRROff /\ MortgageInit /\ PipelineOff /\ CallsOff /\ BuilderOff

NextMortgage ==
    CallGetMonthlyMortgagePayment /\ UNCHANGED <<analyserVars, irrVars, pipelineVars, callVars, builderVars>>

SpecMortgage == InitMortgage /\ [][NextMortgage]_vars

InitPipeline == AnalyserOff /\ IRROff /\ MortgageOff /\ PipelineInit /\ CallsOff /\ BuilderOff

NextPipeline ==
    \/ CallGetAnnualExpenses /\ UNCHANGED <<analyserVars, irrVars, mortgageVars, callVars, builderVars>>
    \/ CallLoanGetters /\ UNCHANGED <<analyserVars, irrVars, mortgageVars, callVars, builderVars>>
    \/ CallGetCashflows /\ UNCHANGED <<analyserVars, irrVars, mortgageVars, callVars, builderVars>>
    \/ CallProjection /\ UNCHANGED <<analyserVars, irrVars, mortgageVars, callVars, builderVars>>
    \/ CallCalculateAppreciation /\ UNCHANGED <<analyserVars, irrVars, mortgageVars, callVars, builderVars>>
    \/ CallProjectionGetters /\ UNCHANGED <<analyserVars, irrVars, mortgageVars, callVars, builderVars>>
    \/ CallCheckDealCriteria /\ UNCHANGED <<analyserVars, irrVars, mortgageVars, callVars, builderVars>>
    \/ CallGetArrAvg /\ UNCHANGED <<analyserVars, irrVars, mortgageVars, callVars, builderVars>>
    \/ CallCheckDealCriteriaAtPrices /\ UNCHANGED <<analyserVars, irrVars, mortgageVars, callVars, builderVars>>

SpecPipeline == InitPipeline /\ [][NextPipeline]_vars

\* The analyser with its getters and its report called between the
\* operations.  An operation that sets the price discards the report the
\* caller held, and adjustToMaxPurchasePrice the getter results as well:
\* they are compared at one price, before and after a reset too.
NextCalls ==
    \/ AdjustStart /\ got' = NoCall /\ report' = NoCall
           /\ UNCHANGED <<irrVars, mortgageVars, pipelineVars, builderVars>>
    \/ ExpandStep_ts /\ UNCHANGED <<irrVars, mortgageVars, pipelineVars, callVars, builderVars>>
    \/ ExpandStep_part_003 /\ UNCHANGED <<irrVars, mortgageVars, pipelineVars, callVars, builderVars>>
    \/ SearchStep_ts /\ UNCHANGED <<irrVars, mortgageVars, pipelineVars, callVars, builderVars>>
    \/ SearchStep_part_003 /\ UNCHANGED <<irrVars, mortgageVars, pipelineVars, callVars, builderVars>>
    \/ AdjustFinish /\ UNCHANGED <<irrVars, mortgageVars, pipelineVars, callVars, builderVars>>
    \/ resetPurchasePriceAdjustment /\ report' = NoCall
           /\ UNCHANGED <<got, irrVars, mortgageVars, pipelineVars, builderVars>>
    \/ (\E g \in ReturnGetters : CallReturnGetter(g))
           /\ UNCHANGED <<irrVars, mortgageVars, pipelineVars, builderVars>>
    \/ getFullResultsMarkdown /\ UNCHANGED <<irrVars, mortgageVars, pipelineVars, builderVars>>

\* The deals of the analysers that are called: a cash purchase, a loan whose
\* adjusted price is 26 (listed at 50 and at 26 itself) and the builder's
\* default rate of 0.
CallDeals ==
    {Deal(100, 5, 25, Dec(97, 7000), 50),
     Deal(0, 120, 1, Dec(101, 5000), 50),
     Deal(0, 120, 1, Dec(101, 5000), 26),
     Deal(20, 0, 25, FromInt(150), 50)}

\* constructor(input), for the deals above.
CallsInit ==
    /\ ver \in Versions
    /\ deal \in CallDeals
    /\ purchasePrice = deal.salePrice
    /\ LET s == IF ver = "part_003" THEN analyzeDeal(deal, deal.salePrice)
                ELSE initializeServices(deal, deal.salePrice)
       IN  /\ mortgageService = s.mortgageService
           /\ expenseService = s.expenseService
           /\ returnService = s.returnService
    /\ pc = "idle"
    /\ left = 0
    /\ right = 0
    /\ tested = <<>>
    /\ lastOp = "constructor"
    /\ got = NoCall
    /\ report = NoCall

InitCalls == CallsInit /\ IRROff /\ MortgageOff /\ PipelineOff /\ BuilderOff

SpecCalls == InitCalls /\ [][NextCalls]_vars

InitBuilder ==
    AnalyserOff /\ IRROff /\ MortgageOff /\ PipelineOff /\ CallsOff /\ BuilderInit

NextBuilder ==
    \/ setDeal /\ UNCHANGED <<analyserVars, irrVars, mortgageVars, pipelineVars, callVars>>
    \/ setField /\ UNCHANGED <<analyserVars, irrVars, mortgageVars, pipelineVars, callVars>>
    \/ build /\ UNCHANGED <<analyserVars, irrVars, mortgageVars, pipelineVars, callVars>>
    \/ constructAnalyser
           /\ UNCHANGED <<analyserVars, irrVars, mortgageVars, pipelineVars, callVars>>

SpecBuilder == InitBuilder /\ [][NextBuilder]_vars


(***************************************************************************)
(* Properties of adjustToMaxPurchasePrice                                  *)
(***************************************************************************)
\* The classification of deal d at price p by version v of the analyser.
Classify(v, d, p) ==
    IF v = "part_003"
    THEN checkDealCriteria_part_003(d, analyzeDeal(d, p).returnService)
    ELSE checkDealCriteria(d, initializeServices(d, p).returnService)

\* adjustToMaxPurchasePrice as a function of the version and the deal: the
\* prices it classifies, in order, and the price it ends with.  The first
\* loop (a deal of the model is rejected before MaxPrice):
RECURSIVE ExpandRun(_, _, _, _)
ExpandRun(v, d, price, visited) ==
    IF IsTooLow(Classify(v, d, price)) \/ 2 * price > MaxPrice
    THEN [visited |-> Append(visited, price), right |-> price]
    ELSE ExpandRun(v, d, 2 * price, Append(visited, price))

\* The binary search of src/RealEstateDealAnalyser.ts.
RECURSIVE SearchRun_ts(_, _, _, _)
SearchRun_ts(d, l, r, visited) ==
    IF l > r THEN [visited |-> visited, final |-> r]
    ELSE Call2((l + r) \div 2, Classify("RealEstateDealAnalyser.ts", d, (l + r) \div 2),
               LAMBDA middle, dealAnalysisResult :
                   IF dealAnalysisResult = "bad"
                   THEN SearchRun_ts(d, l, middle - 1, Append(visited, middle))
                   ELSE IF dealAnalysisResult = "max"
                   THEN [visited |-> Append(visited, middle), final |-> r]
                   ELSE SearchRun_ts(d, middle + 1, r, Append(visited, middle)))

\* The binary search of src/unnamed/part_003.
RECURSIVE SearchRun_part_003(_, _, _, _)
SearchRun_part_003(d, l, r, visited) ==
    IF l > r THEN [visited |-> visited, final |-> r]
    ELSE Call2((l + r) \div 2, Classify("part_003", d, (l + r) \div 2),
               LAMBDA middle, dealAnalysisResult :
                   IF dealAnalysisResult = "max"
                   THEN [visited |-> Append(visited, middle), final |-> r]
                   ELSE IF dealAnalysisResult = "high"
                   THEN SearchRun_part_003(d, l, middle - 1, Append(visited, middle))
                   ELSE SearchRun_part_003(d, middle + 1, r, Append(visited, middle)))

AdjustRun(v, d) ==
    Call(ExpandRun(v, d, 1, <<>>), LAMBDA e :
        IF v = "part_003" THEN SearchRun_part_003(d, 0, e.right, e.visited)
        ELSE SearchRun_ts(d, 0, e.right, e.visited))

\* adjustToMaxPurchasePrice has returned and nothing was called since.
AdjustReturned == pc = "idle" /\ lastOp = "adjust"

\* The price the doubling phase stopped at: the first upper bound of the search.
Upper ==
    LET expands == {k \in 1..Len(tested) : tested[k].phase = "expand"}
    IN  tested[CHOOSE k \in expands : \A j \in expands : j <= k].price

\* For each price of the search range, whether it is TooLow.
TooLowTable == [p \in 0..Upper |-> IsTooLow(Classify(ver, deal, p))]

\* C1: after adjustToMaxPurchasePrice returns, the final price classifies as
\* Acceptable or ExactMinimum whenever some integer price in [0, upper bound]
\* is not TooLow, also when the search stopped early on ExactMinimum.
C1_FinalPriceMeetsCriteria ==
    (AdjustReturned /\ \E p \in 0..Upper : ~IsTooLow(Classify(ver, deal, p)))
        => ~IsTooLow(Classify(ver, deal, purchasePrice))

\* C2: for a deal that is not TooLow up to a price P and TooLow above it,
\* adjustToMaxPurchasePrice leaves the purchase price at P.
C2_FindsMaximumPrice ==
    AdjustReturned =>
        \E tooLow \in {TooLowTable} :
            \A P \in 0..Upper :
                (\A p \in 0..Upper : tooLow[p] <=> p > P) => purchasePrice = P

\* C3: for a deal every price of which, 0 included, is TooLow,
\* adjustToMaxPurchasePrice leaves the purchase price at 0, which is TooLow.
C3_UnsolvableLeavesZero ==
    (AdjustReturned /\ \A p \in 0..Upper : IsTooLow(Classify(ver, deal, p)))
        => purchasePrice = 0 /\ IsTooLow(Classify(ver, deal, purchasePrice))

\* C4: adjustToMaxPurchasePrice terminates: right - left strictly decreases
\* from one iteration of the binary search to the next, and a call that has
\* begun returns.
C4_AdjustTerminates ==
    /\ [][(pc = "search" /\ pc' = "search") => right' - left' < right - left]_vars
    /\ (pc \in {"expand", "search", "break"}) ~> (pc = "idle")

C4_Witness ==
    /\ AdjustReturned
    /\ Len(tested) >= 10
    /\ \E k \in 1..Len(tested) : tested[k].phase = "search" /\ ~IsTooLow(tested[k].result)
    /\ \E k \in 1..Len(tested) : tested[k].phase = "search" /\ IsTooLow(tested[k].result)

\* C5: whenever the constructor, adjustToMaxPurchasePrice or
\* resetPurchasePriceAdjustment has returned, the three services were built
\* with the current purchasePrice; and every classification of the search
\* was computed by services built at the price classified.
C5_NoStaleState ==
    /\ pc = "idle" =>
           BuiltAt(mortgageService, expenseService, returnService)
               = {FromInt(purchasePrice)}
    /\ \A k \in 1..Len(tested) : tested[k].builtAt = {FromInt(tested[k].price)}

C5_Witness ==
    /\ pc = "idle"
    /\ lastOp = "reset"
    /\ purchasePrice = deal.salePrice
    /\ Len(tested) >= 3
    /\ returnService.purchasePrice = FromInt(deal.salePrice)


(***************************************************************************)
(* Properties of getIRR                                                    *)
(***************************************************************************)
\* The bisection returned a rate (it did not run out of iterations).
Converged == irrPc \in {"returned", "done"} /\ i < maxIterations

IRRLoopAgreesWithSteps ==
    irrPc = "done" =>
        irr = Call(calculateIRR(cashflows), LAMBDA r :
                  IF r.threw \/ r.value.k = "undef" \/ IsNaN(r.value)
                  THEN Zero ELSE r.value)

(***************************************************************************)
(* Properties of getMonthlyMortgagePayment                                 *)
(***************************************************************************)
\* n and the monthly rate of the service called.
PaymentCount == Mul(service.deal.mortgageAmortization, FromInt(12))
MonthlyRate ==
    Div(Div(service.deal.annualMortgageInterestRate, FromInt(100)), FromInt(12))

\* C8: the PMI part of the payment is 0 when downpaymentPercentage >= 20
\* and purchasePrice * PMI_RATE / 12 when it is below 20.
C8_PMIOnlyBelowTwenty ==
    called =>
        payment = Add(IF service.deal.downpaymentPercentage.v >= 20 * SCALE
                      THEN Zero
                      ELSE Div(Mul(service.purchasePrice, PMI_RATE), FromInt(12)),
                      PrincipalAndInterest(service, PaymentCount, MonthlyRate))

C8_Witness ==
    /\ called
    /\ service.deal.downpaymentPercentage = FromInt(19)
    /\ service.purchasePrice = FromInt(1000)
    /\ IsFin(payment)
    /\ Lt(PrincipalAndInterest(service, PaymentCount, MonthlyRate), payment)

\* C9: with annualMortgageInterestRate = 0 the payment is loanAmount / n + PMI
\* (here for n > 0), a finite number.
C9_ZeroRatePayment ==
    (called /\ service.deal.annualMortgageInterestRate = Zero
            /\ service.deal.mortgageAmortization # Zero)
        => /\ IsFin(payment)
           /\ payment = Add(Div(getLoanAmount(service), PaymentCount), PMI(service))

\* C10: with mortgageAmortization = 0 the payment is a finite number.
C10_ZeroTermPayment ==
    (called /\ service.deal.mortgageAmortization = Zero) => IsFin(payment)

(***************************************************************************)
(* Properties of the expense service                                       *)
(***************************************************************************)
\* C13: for dues below, at and above 0, annual insurance is the flat
\* CONDO_INSURANCE_RATE exactly when monthlyHoaDues > 0 and
\* purchasePrice * BASE_INSURANCE_RATE otherwise, and CapEx is 0 exactly
\* when monthlyHoaDues > 0 and purchasePrice * CAPEX_RATE otherwise.
C13_DuesSwitchInsuranceAndCapEx ==
    out.method = "getAnnualExpenses" =>
        /\ out.value.annualPropertyInsurance =
               IF subject.deal.monthlyHoaDues.v > 0
               THEN CONDO_INSURANCE_RATE
               ELSE Mul(FromInt(subject.price), BASE_INSURANCE_RATE)
        /\ out.value.annualCapEx =
               IF subject.deal.monthlyHoaDues.v > 0
               THEN Zero
               ELSE Mul(FromInt(subject.price), CAPEX_RATE)

SubjectEquity ==
    IF subject.deal.closingEquity.k = "undef" THEN Zero ELSE subject.deal.closingEquity

\* C15: getLoanAmount returns purchasePrice - downPayment - closingEquity, a
\* missing closingEquity counted as 0, without clamping: when it is negative
\* the amortization part of the monthly payment is negative and the initial
\* remaining balance of the projection is that negative amount.
C15_LoanAmountNotClamped ==
    out.method = "getLoanAmount" =>
        /\ out.value.loanAmount.v =
               subject.price * SCALE
               - MulFix(subject.price * SCALE, subject.deal.downpaymentPercentage.v \div 100)
               - SubjectEquity.v
        /\ out.value.initialMetrics.remainingBalance = out.value.loanAmount
        /\ out.value.loanAmount.v < 0 =>
               Lt(Sub(out.value.monthlyMortgagePayment,
                      PMI(SubjectServices.mortgageService)), Zero)

(***************************************************************************)
(* Properties of getCashflows                                              *)
(***************************************************************************)
\* The yearly cash flows, the equity gained over the horizon and the initial
\* investment of the subject, from the projection and the other getters.
SubjectYearlyCashflows ==
    [y \in 1..INVESTMENT_YEAR_TIME_HORIZON |->
        Projection(SubjectServices.returnService, INVESTMENT_YEAR_TIME_HORIZON)[y].cashFlow]
SubjectGainedEquity ==
    Add(getPrincipalReductions(SubjectServices.returnService).totalPrincipalPaid,
        ReduceSum(getAppreciations(SubjectServices.returnService).appreciations))
SubjectInitialInvestment ==
    Add(Mul(CLOSING_COST_RATE, FromInt(subject.price)),
        getDownPayment(SubjectServices.mortgageService))

\* C16: the series of getCashflows has HORIZON + 1 entries: -initialInvestment,
\* then the yearly cash flows, the last of them raised by the gained equity;
\* trueCashflows has the HORIZON yearly cash flows without the investment and
\* without the equity, and avgCashflow is their arithmetic mean.
C16_CashflowSeriesShape ==
    out.method = "getCashflows" =>
        \E yearly \in {SubjectYearlyCashflows} :
            /\ Len(out.value.cashflows) = INVESTMENT_YEAR_TIME_HORIZON + 1
            /\ out.value.cashflows[1] = Neg(SubjectInitialInvestment)
            /\ \A y \in 1..(INVESTMENT_YEAR_TIME_HORIZON - 1) :
                   out.value.cashflows[y + 1] = yearly[y]
            /\ out.value.cashflows[INVESTMENT_YEAR_TIME_HORIZON + 1] =
                   Add(yearly[INVESTMENT_YEAR_TIME_HORIZON], SubjectGainedEquity)
            /\ out.value.trueCashflows = yearly
            /\ out.value.avgCashflow =
                   Div(ReduceSum(yearly), FromInt(INVESTMENT_YEAR_TIME_HORIZON))

C16_Witness ==
    /\ out.method = "getCashflows"
    /\ \A y \in 1..Len(out.value.cashflows) : IsFin(out.value.cashflows[y])
    /\ Lt(out.value.cashflows[1], Zero)
    /\ Lt(Zero, SubjectGainedEquity)
    /\ Lt(out.value.trueCashflows[INVESTMENT_YEAR_TIME_HORIZON],
          out.value.cashflows[INVESTMENT_YEAR_TIME_HORIZON + 1])

(***************************************************************************)
(* Properties of checkDealCriteria                                         *)
(***************************************************************************)
\* a >= min for a finite min: false when a is NaN.
NotBelow(a, min) == (a.k = "fin" /\ a.v >= min.v) \/ (a.k = "inf" /\ a.v > 0)

\* The cash-flow threshold of the subject: 100 per door and month.
SubjectCashflowThreshold == FromInt(100 * (subject.deal.unitCount.v \div SCALE) * 12)

\* All three criteria hold for the measured values.
MeetsAllThree(m) ==
    /\ NotBelow(m.avgYield, Dec(0, 2500))
    /\ NotBelow(m.avgCashflow, SubjectCashflowThreshold)
    /\ NotBelow(m.avgCOCROI, Dec(0, 500))

C20_AverageOfEmptyIsZero ==
    out.method = "getArrAvg" =>
        /\ IsFin(out.value)
        /\ out.value = IF Len(out.arr) = 0 THEN Zero
                       ELSE Div(ReduceSum(out.arr), FromInt(Len(out.arr)))

(***************************************************************************)
(* Monotonicity of the classification                                      *)
(***************************************************************************)
\* The classifications of the subject's deal have been taken at TablePrices.
Classified == out.method = "checkDealCriteria at prices"

\* Once TooLow, TooLow at every larger price.
MonotoneInPrice ==
    \A p, q \in DOMAIN out.value :
        (p < q /\ IsTooLow(out.value[p])) => IsTooLow(out.value[q])

\* TooLow at the largest price classified.
TooLowAtLargePrices ==
    IsTooLow(out.value[CHOOSE p \in DOMAIN out.value : \A q \in DOMAIN out.value : q <= p])

C18_DealIsReadOnly ==
    [][/\ deal' = deal
       /\ mortgageService'.deal = deal
       /\ expenseService'.deal = deal
       /\ returnService'.deal = deal]_vars

\* An adjustment and a reset ran, then a getter and the report were called.
C18_Witness ==
    /\ tested # <<>>
    /\ lastOp = "reset"
    /\ pc = "idle"
    /\ got.method # "none"
    /\ report.method # "none"
    /\ deal \in CallDeals

\* C19: after resetPurchasePriceAdjustment the price is the sale price, the
\* services are built at it and the report is titled as the sale-price
\* analysis; a report is titled as the adjusted analysis exactly when
\* adjustToMaxPurchasePrice set the price last and it differs from the sale
\* price, and then names the adjusted price.
C19_ResetRestoresSalePrice ==
    /\ (lastOp = "reset" /\ pc = "idle") =>
           /\ purchasePrice = deal.salePrice
           /\ BuiltAt(mortgageService, expenseService, returnService)
                  = {FromInt(deal.salePrice)}
           /\ report.method # "none" =>
                  (report.title = "Sale Price Analysis" /\ report.at = deal.salePrice)
    /\ report.method # "none" =>
           /\ report.title = "Maximum Purchase Price Analysis"
                  <=> (lastOp = "adjust" /\ purchasePrice # deal.salePrice)
           /\ report.at = purchasePrice

\* The report was generated after a reset that followed an adjustment to
\* another price.
C19_Witness ==
    /\ lastOp = "reset"
    /\ tested # <<>>
    /\ tested[Len(tested)].price # deal.salePrice
    /\ report.method # "none"
    /\ report.title = "Sale Price Analysis"

(***************************************************************************)
(* Properties of the two loops of adjustToMaxPurchasePrice                 *)
(***************************************************************************)

\* The positions of tested whose classification is TooLow.
RejectedTests == {k \in 1..Len(tested) : IsTooLow(tested[k].result)}

\* C21: at every iteration of the binary search right is the upper bound of
\* the doubling phase or one less than a price classified TooLow, every
\* tested price above right was TooLow and every tested price below left was
\* not; when the loop ends with left > right, left = right + 1, right is -1
\* or a price the search classified as not TooLow, and right + 1 was
\* classified TooLow.
C21_SearchLoopInvariant ==
    pc = "search" =>
        /\ right = Upper \/ \E k \in RejectedTests : tested[k].price = right + 1
        /\ \A k \in 1..Len(tested) : tested[k].price > right => k \in RejectedTests
        /\ \A k \in 1..Len(tested) : tested[k].price < left => k \notin RejectedTests
        /\ left > right =>
               /\ left = right + 1
               /\ \/ right = -1
                  \/ \E k \in 1..Len(tested) \ RejectedTests :
                         tested[k].phase = "search" /\ tested[k].price = right
               /\ \E k \in RejectedTests : tested[k].price = right + 1

\* The search ended without an ExactMinimum at a positive price, after
\* midpoints of both kinds.
C21_Witness ==
    /\ pc = "search"
    /\ left > right
    /\ right > 1
    /\ right + 1 < Upper
    /\ \E k \in RejectedTests : tested[k].phase = "search"

\* The doubling phase has just handed over to the binary search.
SearchBegins == pc = "search" /\ tested[Len(tested)].phase = "expand"

\* C22: the doubling phase tests 1, 2, 4, ... and stops at the first 2^k that
\* is TooLow: every earlier candidate was not TooLow, the search starts with
\* left = 0 and right = 2^k, and the classifications are those of the deal at
\* these prices whatever its sale price.
C22_DoublingPhase ==
    SearchBegins =>
        /\ \A j \in 1..Len(tested) :
               /\ tested[j].price = 2 ^ (j - 1)
               /\ IsTooLow(tested[j].result) <=> j = Len(tested)
               /\ \A s \in SalePrices :
                      tested[j].result
                          = Classify(ver, [deal EXCEPT !.salePrice = s], 2 ^ (j - 1))
        /\ left = 0
        /\ right = 2 ^ (Len(tested) - 1)

\* The doubling stopped at 2^k with k >= 3.
C22_Witness == SearchBegins /\ Len(tested) >= 4

\* C23: when price 1 is TooLow the doubling phase doubles nothing (the upper
\* bound stays 1) and adjustToMaxPurchasePrice ends with right, the final
\* price, at 0 when price 0 is not TooLow and below 0 when it is.
C23_PriceOneTooLow ==
    (AdjustReturned /\ IsTooLow(tested[1].result)) =>
        /\ Upper = 1
        /\ IF IsTooLow(Classify(ver, deal, 0))
           THEN purchasePrice < 0
           ELSE purchasePrice = 0

(***************************************************************************)
(* Properties of the projection                                            *)
(***************************************************************************)

\* The total expenses of the subject when its yearly rent is annualRent.
SubjectExpensesAtRent(annualRent) ==
    getAnnualExpenses(
        ExpenseCalculationService(
            [subject.deal EXCEPT !.monthlyRent = Div(annualRent, FromInt(12))],
            FromInt(subject.price),
            SubjectServices.mortgageService)).totalAnnualExpenses

\* The metrics m of a year follow from the metrics prev of the year before.
ProjectionStep(prev, m, monthlyPayment) ==
    /\ m.cashFlow = Sub(prev.annualRent, SubjectExpensesAtRent(prev.annualRent))
    /\ m.principalPaid =
           Sub(Mul(monthlyPayment, FromInt(12)),
               Mul(prev.remainingBalance,
                   Div(subject.deal.annualMortgageInterestRate, FromInt(100))))
    /\ m.annualRent = Mul(prev.annualRent, Add(One, APPRECIATION_RATES_RENT))
    /\ m.remainingBalance = Sub(prev.remainingBalance, m.principalPaid)
    /\ m.totalPrincipalPaid = Add(prev.totalPrincipalPaid, m.principalPaid)
    /\ m.totalAppreciation = Add(prev.totalAppreciation, m.appreciation)

\* The projection starts from the rent of a year and the loan amount.
ProjectionStart(m) ==
    /\ m.annualRent = Mul(subject.deal.monthlyRent, FromInt(12))
    /\ m.remainingBalance = getLoanAmount(SubjectServices.mortgageService)
    /\ m.cashFlow = Zero /\ m.principalPaid = Zero /\ m.appreciation = Zero
    /\ m.totalPrincipalPaid = Zero /\ m.totalAppreciation = Zero

\* C24: the projection starts from annualRent = monthlyRent * 12 and
\* remainingBalance = loanAmount, every year follows from the year before by
\* the transition of calculateYearlyMetrics with one mortgage payment for all
\* years, and after every year remainingBalance + totalPrincipalPaid equals
\* the loan amount.
C24_ProjectionTransition ==
    out.method = "projection" =>
        \E monthlyPayment \in {getMonthlyMortgagePayment(SubjectServices.mortgageService)} :
            /\ Len(out.value) = INVESTMENT_YEAR_TIME_HORIZON + 1
            /\ ProjectionStart(out.value[1])
            /\ \A k \in 1..INVESTMENT_YEAR_TIME_HORIZON :
                   /\ ProjectionStep(out.value[k], out.value[k + 1], monthlyPayment)
                   /\ StrictEq(Add(out.value[k + 1].remainingBalance,
                                   out.value[k + 1].totalPrincipalPaid),
                               getLoanAmount(SubjectServices.mortgageService))

(***************************************************************************)
(* Properties of calculateAppreciation                                     *)
(***************************************************************************)

\* The loops of calculateAppreciation round after every multiplication, the
\* closed forms below round the power: with numbers of 1/SCALE the two may
\* differ by a cent and 5/SCALE of the purchase price (the two rules of
\* appreciation differ by 150/SCALE of the price and more).
RoundingAllowance == Add(Dec(0, 100), Mul(FromInt(subject.price), Dec(0, 5)))

Near(a, b) ==
    IF IsFin(a) /\ IsFin(b) THEN ~Lt(RoundingAllowance, Abs(Sub(a, b))) ELSE a = b

\* purchasePrice * (1 + SFH) ^ j
CompoundedValue(j) ==
    Mul(FromInt(subject.price), Pow(Add(One, APPRECIATION_RATES_SFH), FromInt(j)))

\* purchasePrice * rent_j / monthlyRent, rent_j = monthlyRent * (1 + RENT) ^ j
RentScaledValue(j) ==
    Div(Mul(FromInt(subject.price),
            Mul(subject.deal.monthlyRent,
                Pow(Add(One, APPRECIATION_RATES_RENT), FromInt(j)))),
        subject.deal.monthlyRent)

VisitedPrices == [k \in 1..Len(tested) |-> tested[k].price]

\* C26: the two versions of adjustToMaxPurchasePrice classify the same
\* prices in the same order and end with the same purchase price: what the
\* analyser of one version did is what either version does for its deal.
C26_VersionsAgree ==
    AdjustReturned =>
        \A v \in Versions :
            AdjustRun(v, deal) = [visited |-> VisitedPrices, final |-> purchasePrice]

\* The search broke off on ExactMinimum, where the two versions differ in
\* the order of their statements.
C26_Witness ==
    /\ AdjustReturned
    /\ IsExactMinimum(tested[Len(tested)].result)
    /\ Len(tested) >= 6

(***************************************************************************)
(* The divisor of the yields                                               *)
(***************************************************************************)

\* getInitialInvestment() of the return service built for the deal at price p.
InitialInvestmentAt(p) ==
    getInitialInvestment(
        (IF ver = "part_003" THEN analyzeDeal(deal, p)
         ELSE initializeServices(deal, p)).returnService)

\* C27: every price adjustToMaxPurchasePrice classifies, and the price it
\* ends with, has an initial investment other than 0, and the price 0 is
\* never classified.
C27_NonzeroInitialInvestment ==
    /\ \A k \in 1..Len(tested) :
           tested[k].price # 0 /\ InitialInvestmentAt(tested[k].price) # Zero
    /\ AdjustReturned => getInitialInvestment(returnService) # Zero

(***************************************************************************)
(* adjustToMaxPurchasePrice and the history of the analyser                *)
(***************************************************************************)

\* The loops of adjustToMaxPurchasePrice have ended: right is the price the
\* method is about to assign.
AdjustEnds == pc = "break" \/ (pc = "search" /\ left > right)

\* C28: the price adjustToMaxPurchasePrice ends with is that of the deal's
\* terms other than salePrice: whatever was called before (the constructor,
\* a reset, another adjustment) and whatever the sale price, it is the final
\* price of the adjustment run as a function of the deal.
C28_AdjustIsHistoryIndependent ==
    \A s \in SalePrices :
        /\ AdjustEnds =>
               right = AdjustRun(ver, [deal EXCEPT !.salePrice = s]).final
        /\ AdjustReturned =>
               purchasePrice = AdjustRun(ver, [deal EXCEPT !.salePrice = s]).final

\* An adjustment that follows another adjustment is about to return a
\* positive price.
C28_Witness ==
    /\ AdjustEnds
    /\ lastOp = "adjust"
    /\ right > 1
    /\ right # deal.salePrice

(***************************************************************************)
(* The four getters that run the projection                                *)
(***************************************************************************)

C30_BuiltDealStaysFixed ==
    /\ \A k \in 1..Len(built) : heap[built[k].ref] = built[k].deal
    /\ constructed # NoObject => heap[constructed.input] = constructed.deal

=============================================================================
